---- MODULE Spec2Model ----
(***************************************************************************)
(* Model of the benchmark runners of src/src/runner.rs (HttpRunner,        *)
(* TcpRunner, UdsRunner): C worker tasks that repeatedly call a protocol   *)
(* adapter, four shared atomic counters, one bounded mpsc channel of       *)
(* latency samples, and the supervisor that waits for the workers or the   *)
(* deadline, aborts what is left, drains the channel and builds the report.*)
(*                                                                         *)
(* Time is a discrete clock `now`.  A task is either suspended at an await *)
(* (pc "attempt", "sendwait") or running between two awaits; running code  *)
(* takes no time, so the clock advances only when nothing is runnable.     *)
(* A task that JoinSet::abort_all() finds suspended is never polled again: *)
(* its future is dropped.  A task that is running when abort_all() is      *)
(* called goes on to its next await (or to its end).                       *)
(***************************************************************************)
EXTENDS Integers, Sequences, FiniteSets, TLC

\* ------------------------------------------------------------------ bounds
MaxConcurrency == 2   \* largest configured concurrency C
MaxRequests == 2      \* largest configured request count N (0 = unbounded)
MaxDuration == 2      \* the configured duration D is 0 or this, in clock units
MaxAttempts == 2      \* adapter calls that return in one run; later calls stay pending

\* ------------------------------------------------- program constants (scaled)
ChanCap == 1          \* mpsc::channel::<Duration>(10000), scaled down
TickLen == 2          \* sleep(Duration::from_millis(100)), in clock units
Timeout == 1          \* config.timeout T, in clock units
HeaderBytes == 1      \* sum of k.len() + v.len() over the configured headers
DataLen == 1          \* data.len() of the configured TCP/UDS payload
BodyLen == 1          \* length of the configured HTTP request body

\* the clock stops here: later than every timer and every bound stated below
MaxTime == MaxDuration + TickLen + Timeout + 1

Protocols == {"HTTP", "TCP", "UDS"}
Durations == {0, MaxDuration}
RespLens == {0, 2}    \* lengths of the response an adapter returns

\* ------------------------------------------------------------------- state
VARIABLES
    cfg,                  \* the configuration record: protocol, requests, concurrency, duration
    now,                  \* Instant::now() - start_time
    pc,                   \* pc[w]: where worker w is
    iter,                 \* iter[w]: iterations of `for _ in 0..requests_per_worker` finished
    attemptStart,         \* attemptStart[w]: start_time of the adapter call in flight
    elapsed,              \* elapsed[w]: the Ok(.., elapsed) the worker is about to send
    credited,             \* credited[w]: successful/bytes already added for the attempt
                          \*   whose completed_requests increment has not happened yet
    completed_requests,
    successful_requests,
    bytes_sent,
    bytes_received,
    chan,                 \* the mpsc channel's buffer
    sup,                  \* where the supervisor (the body of run) is
    sleepUntil,           \* when the select!'s sleep fires
    joined,               \* workers already returned by set.join_next()
    aborted,              \* set.abort_all() has been called
    loopExit,             \* clock value when the wait loop was left
    response_times,       \* the Vec the drain fills
    report,               \* the BenchmarkReport returned, or NoReport
    call,                 \* one adapter call (send_request, send_tcp) looked at alone
    st,                   \* one run of the latency statistics looked at alone
    twin,                 \* one worker loop run twice, with keep_alive unset and set
    conf,                 \* one configuration on its way from its source to a runner
    tui                   \* the TUI's AppState and the benchmark task it spawned

vars == <<cfg, now, pc, iter, attemptStart, elapsed, credited, completed_requests,
          successful_requests, bytes_sent, bytes_received, chan, sup, sleepUntil,
          joined, aborted, loopExit, response_times, report, call, st, twin, conf, tui>>

\* the runner's part of the state
runnerVars == <<cfg, now, pc, iter, attemptStart, elapsed, credited, completed_requests,
                successful_requests, bytes_sent, bytes_received, chan, sup, sleepUntil,
                joined, aborted, loopExit, response_times, report>>

NoCall == [phase |-> "none"]
NoStats == [phase |-> "none"]
NoTwin == [phase |-> "none"]
NoConf == [phase |-> "none"]
NoTui == [phase |-> "none"]

NoReport == [none |-> TRUE]

Workers == 1..cfg.concurrency

\* ----------------------------------------------------------------- helpers
\* mutant: a quota of floor(n / c) + 1 in place of the ceiling division
RequestsPerWorkerOffByOne(n, c) == IF n > 0 THEN n \div c + 1 ELSE -1

\* (requests + concurrency - 1) / concurrency, or usize::MAX when requests = 0
Unbounded == -1
RequestsPerWorker(n, c) == IF n > 0 THEN (n + c - 1) \div c ELSE Unbounded

requests_per_worker == RequestsPerWorker(cfg.requests, cfg.concurrency)

start_time == 0
stop_time == start_time + cfg.duration

\* usize::saturating_sub
SaturatingSub(a, b) == IF a >= b THEN a - b ELSE 0

\* self.config.data of the runs considered: the TCP configuration carries
\* Some(data) of DataLen bytes, the UDS configuration carries None
ConfiguredData(proto) ==
    IF proto = "TCP" THEN [some |-> TRUE, len |-> DataLen] ELSE [some |-> FALSE, len |-> 0]

\* mutant: DataLen is added whether or not data is configured
BytesSentForAnyData(proto, respLen) ==
    IF proto = "HTTP" THEN respLen + HeaderBytes ELSE DataLen

\* bytes a successful attempt adds to bytes_sent; for HTTP `body` is the body
\* bound by Ok((status, body, elapsed)), i.e. the response body; for TCP and
\* UDS `if let Some(ref d) = data { .. d.len() }`
BytesSentFor(proto, respLen) ==
    IF proto = "HTTP" THEN respLen + HeaderBytes
    ELSE IF ConfiguredData(proto).some THEN ConfiguredData(proto).len
    ELSE 0

\* Vec::sort on durations
RECURSIVE Insert(_, _)
Insert(s, x) ==
    IF s = <<>> THEN <<x>>
    ELSE IF x <= Head(s) THEN <<x>> \o s
    ELSE <<Head(s)>> \o Insert(Tail(s), x)

\* the samples as they were drained, never sorted
Unsorted(s) == s

RECURSIVE Sort(_)
Sort(s) == IF s = <<>> THEN <<>> ELSE Insert(Sort(Tail(s)), Head(s))

\* ------------------------------------------------------------- statistics
Percents == {50, 90, 95, 99}   \* the X of percentile(.., 0.5 / 0.9 / 0.95 / 0.99), times 100

RECURSIVE Sum(_)
\* iter().fold(Duration::from_secs(0), |acc, &x| acc + x)
Sum(s) == IF s = <<>> THEN 0 ELSE Head(s) + Sum(Tail(s))

\* Duration / u32 truncates
avg_time(durations) ==
    IF durations = <<>> THEN 0 ELSE Sum(durations) \div Len(durations)

\* first() and last() of the sorted Vec, zero when it is empty
min_time(durations) == IF durations = <<>> THEN 0 ELSE durations[1]
max_time(durations) == IF durations = <<>> THEN 0 ELSE durations[Len(durations)]

\* the nearest-rank rule, index ceil(len * X) - 1
PercentileNearestRank(durations, pct) ==
    IF durations = <<>> THEN 0
    ELSE durations[(Len(durations) * pct + 99) \div 100]

\* index = floor(len as f64 * X), then min(len - 1); the f64 product floors
\* to (len * pct) \div 100 for every len up to 2 000 000 and these four X.
\* The Vec is indexed from 0, the sequence from 1
percentile(durations, pct) ==
    IF durations = <<>> THEN 0
    ELSE LET index == (Len(durations) * pct) \div 100
             clamped == IF index < Len(durations) - 1 THEN index ELSE Len(durations) - 1
         IN  durations[clamped + 1]

\* total_requests / whole seconds, the fraction dropped
RequestsPerSecondTruncated(total_requests, total_time) ==
    IF total_time > 0 THEN [num |-> total_requests \div total_time, den |-> 1]
    ELSE [num |-> 0, den |-> 1]

\* total_requests as f64 / total_time.as_secs_f64(), kept as a fraction; 0.0
\* when total_time is zero
requests_per_second(total_requests, total_time) ==
    IF total_time > 0 THEN [num |-> total_requests, den |-> total_time]
    ELSE [num |-> 0, den |-> 1]

\* the run's time as measured by the drain alone
TotalTimeOfDrain == now - loopExit

\* start_time.elapsed()
total_time == now - start_time

\* ------------------------------------------------------------------- Init
\* the state in which run has parsed its configuration and spawned its workers
Init ==
    /\ cfg \in [protocol : Protocols,
                input : {"ok"},
                requests : 0..MaxRequests,
                concurrency : 1..MaxConcurrency,
                duration : Durations]
    /\ tui = NoTui
    /\ call = NoCall
    /\ st = NoStats
    /\ twin = NoTwin
    /\ conf = NoConf
    /\ now = 0
    /\ pc = [w \in Workers |-> "spawned"]
    /\ iter = [w \in Workers |-> 0]
    /\ attemptStart = [w \in Workers |-> 0]
    /\ elapsed = [w \in Workers |-> 0]
    /\ credited = [w \in Workers |-> FALSE]
    /\ completed_requests = 0
    /\ successful_requests = 0
    /\ bytes_sent = 0
    /\ bytes_received = 0
    /\ chan = <<>>
    /\ sup = "loop"
    /\ sleepUntil = 0
    /\ joined = {}
    /\ aborted = FALSE
    /\ loopExit = 0
    /\ response_times = <<>>
    /\ report = NoReport

\* ----------------------------------------------------------------- workers
Suspended(w) == pc[w] \in {"spawned", "attempt", "sendwait"}
Terminated(w) == pc[w] \in {"done", "cancelled"}
Running(w) == pc[w] \in {"spawned", "send"}

\* adapter calls that have returned so far
Returned == completed_requests + Cardinality({w \in Workers : credited[w]})

\* mutant: `>` in place of `>=` in the worker's deadline check
DeadlineReachedLate == now > stop_time

\* `if Instant::now() >= stop_time { break; }`
DeadlineReached == now >= stop_time

\* top of the worker's loop with i iterations behind it: the range 0..requests_per_worker
\* has another element and the deadline check passes, so the adapter is called
IssuesAttempt(i) ==
    /\ requests_per_worker = Unbounded \/ i < requests_per_worker
    /\ ~DeadlineReached

\* the worker goes from the top of its loop into the adapter, or leaves the loop
LoopTop(w, i) ==
    IF IssuesAttempt(i)
    THEN /\ pc' = [pc EXCEPT ![w] = "attempt"]
         /\ attemptStart' = [attemptStart EXCEPT ![w] = now]
    ELSE /\ pc' = [pc EXCEPT ![w] = "done"]
         /\ attemptStart' = [attemptStart EXCEPT ![w] = 0]

\* first poll of the spawned task
WorkerStart(w) ==
    /\ pc[w] = "spawned"
    /\ LoopTop(w, iter[w])
    /\ UNCHANGED <<tui, twin, conf, call, st, cfg, now, iter, elapsed, credited, completed_requests,
                   successful_requests, bytes_sent, bytes_received, chan, sup,
                   sleepUntil, joined, aborted, loopExit, response_times, report>>

\* send_request returns Err(Config) before connecting when the URL has no host
\* (http.rs:23); send_tcp returns Err(Parse) when the expect pattern is no regex
\* (tcp.rs:44-45): the adapter can return Ok only with neither
AdapterCanSucceed == cfg.input = "ok"

\* the adapter returns Ok: the worker adds to successful and to the byte
\* counters and reaches tx_clone.send(elapsed)
AttemptOk(w) ==
    /\ pc[w] = "attempt"
    /\ AdapterCanSucceed
    /\ ~aborted
    /\ Returned < MaxAttempts
    /\ \E respLen \in RespLens :
        /\ successful_requests' = successful_requests + 1
        /\ bytes_received' = bytes_received + respLen
        /\ bytes_sent' = bytes_sent + BytesSentFor(cfg.protocol, respLen)
    /\ elapsed' = [elapsed EXCEPT ![w] = now - attemptStart[w]]
    /\ attemptStart' = [attemptStart EXCEPT ![w] = 0]
    /\ credited' = [credited EXCEPT ![w] = TRUE]
    /\ pc' = [pc EXCEPT ![w] = "send"]
    /\ UNCHANGED <<tui, twin, conf, call, st, cfg, now, iter, completed_requests, chan, sup,
                   sleepUntil, joined, aborted, loopExit, response_times, report>>

\* completed_clone.fetch_add(1), the end of the loop body and the next loop top
FinishIteration(w) ==
    /\ completed_requests' = completed_requests + 1
    /\ iter' = [iter EXCEPT ![w] = @ + 1]
    /\ credited' = [credited EXCEPT ![w] = FALSE]
    /\ elapsed' = [elapsed EXCEPT ![w] = 0]
    /\ LoopTop(w, iter[w] + 1)

\* mutant: the Err arm counts the attempt as successful
AttemptErrCountsSuccess(w) ==
    /\ pc[w] = "attempt"
    /\ ~aborted
    /\ Returned < MaxAttempts
    /\ FinishIteration(w)
    /\ successful_requests' = successful_requests + 1
    /\ UNCHANGED <<tui, twin, conf, call, st, cfg, now, bytes_sent, bytes_received, chan,
                   sup, sleepUntil, joined, aborted, loopExit, response_times, report>>

\* the adapter returns Err: the empty Err arm, then the completed increment
AttemptErr(w) ==
    /\ pc[w] = "attempt"
    /\ ~aborted
    /\ Returned < MaxAttempts
    /\ FinishIteration(w)
    /\ UNCHANGED <<tui, twin, conf, call, st, cfg, now, successful_requests, bytes_sent, bytes_received, chan,
                   sup, sleepUntil, joined, aborted, loopExit, response_times, report>>

\* tx_clone.send(elapsed).await with room in the channel (at once, or when a
\* suspended sender that was not aborted is woken), then the completed increment
Send(w) ==
    /\ pc[w] \in {"send", "sendwait"}
    /\ pc[w] = "sendwait" => ~aborted
    /\ Len(chan) < ChanCap
    /\ chan' = Append(chan, elapsed[w])
    /\ FinishIteration(w)
    /\ UNCHANGED <<tui, twin, conf, call, st, cfg, now, successful_requests, bytes_sent, bytes_received,
                   sup, sleepUntil, joined, aborted, loopExit, response_times, report>>

\* tx_clone.send(elapsed).await finds the channel full: the worker is suspended
SendFull(w) ==
    /\ pc[w] = "send"
    /\ Len(chan) >= ChanCap
    /\ pc' = [pc EXCEPT ![w] = "sendwait"]
    /\ UNCHANGED <<tui, twin, conf, call, st, cfg, now, iter, attemptStart, elapsed, credited, completed_requests,
                   successful_requests, bytes_sent, bytes_received, chan, sup,
                   sleepUntil, joined, aborted, loopExit, response_times, report>>

\* an aborted task that is suspended is dropped at its await
Cancel(w) ==
    /\ aborted
    /\ Suspended(w)
    /\ pc' = [pc EXCEPT ![w] = "cancelled"]
    /\ attemptStart' = [attemptStart EXCEPT ![w] = 0]
    /\ UNCHANGED <<tui, twin, conf, call, st, cfg, now, iter, elapsed, credited, completed_requests,
                   successful_requests, bytes_sent, bytes_received, chan, sup,
                   sleepUntil, joined, aborted, loopExit, response_times, report>>

\* -------------------------------------------------------------- supervisor
\* set.len(): tasks not yet taken out by join_next
SetLen == Cardinality(Workers \ joined)

\* mutant: the wait loop does not look at the deadline
LoopConditionNoDeadline == SetLen > 0

\* mutant: the wait loop runs until the deadline whatever the set holds
LoopConditionDeadlineOnly == now < stop_time

LoopCondition == (now < stop_time) /\ (SetLen > 0)

\* while (Instant::now() < stop_time) && (set.len() > 0) { select! {..} }
SupLoopEnter ==
    /\ sup = "loop"
    /\ LoopCondition
    /\ sup' = "select"
    /\ sleepUntil' = now + TickLen
    /\ UNCHANGED <<tui, twin, conf, call, st, cfg, now, pc, iter, attemptStart, elapsed, credited,
                   completed_requests, successful_requests, bytes_sent, bytes_received,
                   chan, joined, aborted, loopExit, response_times, report>>

\* mutant: the loop is left and set.abort_all() is not called
SupLoopExitNoAbort ==
    /\ sup = "loop"
    /\ ~LoopCondition
    /\ loopExit' = now
    /\ sup' = "drain"
    /\ UNCHANGED <<tui, twin, conf, call, st, cfg, now, pc, iter, attemptStart, elapsed, credited,
                   completed_requests, successful_requests, bytes_sent, bytes_received,
                   chan, sleepUntil, joined, aborted, response_times, report>>

\* the loop is left; set.abort_all()
SupLoopExit ==
    /\ sup = "loop"
    /\ ~LoopCondition
    /\ aborted' = TRUE
    /\ loopExit' = now
    /\ sup' = "drain"
    /\ UNCHANGED <<tui, twin, conf, call, st, cfg, now, pc, iter, attemptStart, elapsed, credited,
                   completed_requests, successful_requests, bytes_sent, bytes_received,
                   chan, sleepUntil, joined, response_times, report>>

\* select!: the sleep(100 ms) arm
SupSleep ==
    /\ sup = "select"
    /\ now >= sleepUntil
    /\ sup' = "loop"
    /\ UNCHANGED <<tui, twin, conf, call, st, cfg, now, pc, iter, attemptStart, elapsed, credited,
                   completed_requests, successful_requests, bytes_sent, bytes_received,
                   chan, sleepUntil, joined, aborted, loopExit, response_times, report>>

\* select!: the set.join_next() arm
SupJoin(w) ==
    /\ sup = "select"
    /\ pc[w] = "done"
    /\ w \notin joined
    /\ joined' = joined \cup {w}
    /\ sup' = "loop"
    /\ UNCHANGED <<tui, twin, conf, call, st, cfg, now, pc, iter, attemptStart, elapsed, credited,
                   completed_requests, successful_requests, bytes_sent, bytes_received,
                   chan, sleepUntil, aborted, loopExit, response_times, report>>

\* while let Some(time) = rx.recv().await { response_times.push(time) }
SupRecv ==
    /\ sup = "drain"
    /\ chan # <<>>
    /\ response_times' = Append(response_times, Head(chan))
    /\ chan' = Tail(chan)
    /\ UNCHANGED <<tui, twin, conf, call, st, cfg, now, pc, iter, attemptStart, elapsed, credited,
                   completed_requests, successful_requests, bytes_sent, bytes_received,
                   sup, sleepUntil, joined, aborted, loopExit, report>>

\* mutant: the drain ends as soon as the channel is empty (try_recv)
ChannelClosedWhenEmpty == TRUE

\* rx.recv() returns None once the channel is empty and every sender is dropped
ChannelClosed == \A w \in Workers : Terminated(w)

BuildReport ==
    LET total_requests == completed_requests
        successful == successful_requests
        sorted == Sort(response_times)
    IN [protocol |-> cfg.protocol,
        concurrency |-> cfg.concurrency,
        total_requests |-> total_requests,
        successful_requests |-> successful,
        failed_requests |-> SaturatingSub(total_requests, successful),
        total_time |-> total_time,
        requests_per_second |-> requests_per_second(total_requests, total_time),
        avg_response_time |-> avg_time(sorted),
        min_response_time |-> min_time(sorted),
        max_response_time |-> max_time(sorted),
        p50_response_time |-> percentile(sorted, 50),
        p90_response_time |-> percentile(sorted, 90),
        p95_response_time |-> percentile(sorted, 95),
        p99_response_time |-> percentile(sorted, 99),
        samples |-> sorted,
        bytes_sent |-> bytes_sent,
        bytes_received |-> bytes_received]

\* the drain ends; sort, snapshot of the counters, Ok(BenchmarkReport {..})
SupFinish ==
    /\ sup = "drain"
    /\ chan = <<>>
    /\ ChannelClosed
    /\ report' = BuildReport
    /\ sup' = "done"
    /\ UNCHANGED <<tui, twin, conf, call, st, cfg, now, pc, iter, attemptStart, elapsed, credited,
                   completed_requests, successful_requests, bytes_sent, bytes_received,
                   chan, sleepUntil, joined, aborted, loopExit, response_times>>

\* ------------------------------------------------------------------- clock
\* something can run without the clock moving
Runnable ==
    \/ \E w \in Workers : Running(w)
    \/ \E w \in Workers : aborted /\ Suspended(w)
    \/ sup \in {"start", "loop"}
    \/ sup = "select" /\ (now >= sleepUntil \/ \E w \in Workers : pc[w] = "done" /\ w \notin joined)
    \/ sup = "drain" /\ (chan # <<>> \/ ChannelClosed)

Tick ==
    /\ sup \notin {"done", "failed"}
    /\ ~Runnable
    /\ now < MaxTime
    /\ now' = now + 1
    /\ UNCHANGED <<tui, twin, conf, call, st, cfg, pc, iter, attemptStart, elapsed, credited, completed_requests,
                   successful_requests, bytes_sent, bytes_received, chan, sup,
                   sleepUntil, joined, aborted, loopExit, response_times, report>>

\* ------------------------------------------------------------------- Next
Next ==
    \/ \E w \in Workers : WorkerStart(w)
    \/ \E w \in Workers : AttemptOk(w)
    \/ \E w \in Workers : AttemptErr(w)
    \/ \E w \in Workers : Send(w)
    \/ \E w \in Workers : SendFull(w)
    \/ \E w \in Workers : Cancel(w)
    \/ SupLoopEnter
    \/ SupLoopExit
    \/ SupSleep
    \/ \E w \in Workers : SupJoin(w)
    \/ SupRecv
    \/ SupFinish
    \/ Tick

Spec == Init /\ [][Next]_vars

\* ------------------------------------------------- run from its first line
\* what the run is given: "ok", a URL that does not parse, a URL that parses
\* and has no host (such as "/bench"), an expect pattern that is no regex
InputsOf(proto) ==
    IF proto = "HTTP" THEN {"ok", "unparsable_url", "no_host"} ELSE {"ok", "bad_regex"}

\* the state after HttpRunner::new / TcpRunner::new / UdsRunner::new
RunInit ==
    /\ cfg \in {c \in [protocol : Protocols,
                        input : {"ok", "unparsable_url", "no_host", "bad_regex"},
                        requests : 0..MaxRequests,
                        concurrency : 1..MaxConcurrency,
                        duration : Durations] : c.input \in InputsOf(c.protocol)}
    /\ tui = NoTui
    /\ call = NoCall
    /\ st = NoStats
    /\ twin = NoTwin
    /\ conf = NoConf
    /\ now = 0
    /\ pc = [w \in Workers |-> "unspawned"]
    /\ iter = [w \in Workers |-> 0]
    /\ attemptStart = [w \in Workers |-> 0]
    /\ elapsed = [w \in Workers |-> 0]
    /\ credited = [w \in Workers |-> FALSE]
    /\ completed_requests = 0
    /\ successful_requests = 0
    /\ bytes_sent = 0
    /\ bytes_received = 0
    /\ chan = <<>>
    /\ sup = "start"
    /\ sleepUntil = 0
    /\ joined = {}
    /\ aborted = FALSE
    /\ loopExit = 0
    /\ response_times = <<>>
    /\ report = NoReport

\* HttpRunner::run: self.config.url.parse() fails and `?` returns Err(Config);
\* the TCP and UDS runs check nothing before they spawn
RunRejects == cfg.protocol = "HTTP" /\ cfg.input = "unparsable_url"

\* the first lines of run, up to and including the spawn loop
RunStart ==
    /\ sup = "start"
    /\ IF RunRejects
       THEN /\ sup' = "failed"
            /\ pc' = pc
       ELSE /\ sup' = "loop"
            /\ pc' = [w \in Workers |-> "spawned"]
    /\ UNCHANGED <<tui, twin, conf, call, st, cfg, now, iter, attemptStart, elapsed, credited,
                   completed_requests, successful_requests, bytes_sent, bytes_received,
                   chan, sleepUntil, joined, aborted, loopExit, response_times, report>>

RunNext ==
    \/ RunStart
    \/ Next

RunSpec == RunInit /\ [][RunNext]_vars

\* main fails as soon as every attempt of the run has failed
MainResultFailsWithoutSuccess ==
    IF sup = "failed" THEN "Err"
    ELSE IF sup = "done"
         THEN IF report.total_requests > 0 /\ report.successful_requests = 0
              THEN "Err" ELSE "Ok"
         ELSE "running"

\* main: `runner.run().await?` returns run's Err; after Ok(report) the report
\* is printed and main returns Ok(())
MainResult ==
    IF sup = "failed" THEN "Err"
    ELSE IF sup = "done" THEN "Ok"
    ELSE "running"

\* the process exit code of `fn main() -> anyhow::Result<()>`
ExitCode == IF MainResult = "Err" THEN 1 ELSE 0

\* The executor polls every runnable task and drops every aborted one, timers
\* fire and the clock advances.  Nothing makes a pending adapter call return.
WorkerRuns(w) ==
    /\ w \in Workers
    /\ WorkerStart(w) \/ Send(w) \/ SendFull(w) \/ Cancel(w)

SupRuns ==
    \/ SupLoopEnter
    \/ SupLoopExit
    \/ SupSleep
    \/ \E w \in Workers : SupJoin(w)
    \/ SupRecv
    \/ SupFinish

FairSpec ==
    /\ Spec
    /\ WF_vars(Tick)
    /\ WF_vars(SupRuns)
    /\ \A w \in 1..MaxConcurrency : WF_vars(WorkerRuns(w))

\* ------------------------------------------------------- no run in progress
\* the runner's state while an adapter call or the statistics are looked at alone
RunnerIdle ==
    /\ cfg = [protocol |-> "TCP", input |-> "ok", requests |-> 0,
              concurrency |-> 1, duration |-> 0]
    /\ now = 0
    /\ pc = [w \in Workers |-> "unspawned"]
    /\ iter = [w \in Workers |-> 0]
    /\ attemptStart = [w \in Workers |-> 0]
    /\ elapsed = [w \in Workers |-> 0]
    /\ credited = [w \in Workers |-> FALSE]
    /\ completed_requests = 0
    /\ successful_requests = 0
    /\ bytes_sent = 0
    /\ bytes_received = 0
    /\ chan = <<>>
    /\ sup = "idle"
    /\ sleepUntil = 0
    /\ joined = {}
    /\ aborted = FALSE
    /\ loopExit = 0
    /\ response_times = <<>>
    /\ report = NoReport

\* ------------------------------------------- one adapter call (http.rs, tcp.rs)
MaxReads == 2         \* reads that return data in one call
MaxStart == 1         \* latest instant at which the call starts

\* what one read returns: a chunk holding the text the pattern looks for, a
\* chunk of other text, a chunk holding the byte 0xFF (never valid UTF-8)
Chunks == {"h", "x", "ff"}
\* the expect option: unset, a pattern that finds "h", a pattern that is no regex
Expects == {"none", "h", "bad_regex"}

\* String::from_utf8_lossy: every invalid byte becomes U+FFFD
FromUtf8Lossy(buf) ==
    [ok |-> TRUE, text |-> [i \in 1..Len(buf) |-> IF buf[i] = "ff" THEN "fffd" ELSE buf[i]]]

\* String::from_utf8(response.clone()): Err when any byte is not valid UTF-8
FromUtf8(buf) ==
    IF \A i \in 1..Len(buf) : buf[i] # "ff"
    THEN [ok |-> TRUE, text |-> buf]
    ELSE [ok |-> FALSE, text |-> <<>>]

\* regex.is_match(&text) for the pattern "h": an unanchored search
IsMatch(text) == \E i \in 1..Len(text) : text[i] = "h"

\* `if let Ok(text) = String::from_utf8(..) { if regex.is_match(&text) {found = true} }`
Found(buf) == LET d == FromUtf8(buf) IN d.ok /\ IsMatch(d.text)

\* status codes a server may answer with
Statuses == {200, 404, 500}

\* nothing was handed to tx_clone.send
NoSample == [sent |-> FALSE, v |-> 0]

\* data: Option<&[u8]> is None, Some of no bytes, or Some of bytes
Payloads == {"absent", "empty", "some"}

\* every Some(bytes) is written, the empty slice too
HasDataSome(data) == data # "absent"

\* `if let Some(bytes) = data { if !bytes.is_empty() {`
HasData(data) == data = "some"

\* start_time = Instant::now(), then the connect under timeout(T)
NewCall(proto, data, expect) ==
    [phase |-> "connect", proto |-> proto, start |-> now, timer |-> now + Timeout,
     data |-> data, expect |-> expect, buf |-> <<>>, wrote |-> FALSE,
     status |-> 0, result |-> "none", how |-> "none", last |-> "none", end |-> 0,
     successful |-> 0, sample |-> NoSample]

\* the call returns to its caller, out of the phase it was in
Finish(c, result, how) ==
    [c EXCEPT !.phase = "returned", !.result = result, !.how = how,
              !.last = c.phase, !.end = now]

\* a future under timeout(T) began
Arm(c, phase) == [c EXCEPT !.phase = phase, !.timer = now + Timeout]

InFlight == call.phase \in {"connect", "send", "collect", "write", "xread", "nread"}

\* send_request up to the connect: the host check returns Err(Config) at once
HttpCallStart ==
    /\ call.phase = "none"
    /\ \E host \in BOOLEAN :
         call' = IF host THEN NewCall("HTTP", "absent", "none")
                 ELSE Finish(NewCall("HTTP", "absent", "none"), "Config", "no_host")
    /\ UNCHANGED <<tui, twin, conf, st, runnerVars>>

\* send_tcp up to the connect
TcpCallStart ==
    /\ call.phase = "none"
    /\ \E data \in Payloads, expect \in Expects : call' = NewCall("TCP", data, expect)
    /\ UNCHANGED <<tui, twin, conf, st, runnerVars>>

\* send_tcp after the write: Regex::new, then one of the two read loops
AfterWrite(c) ==
    IF c.expect = "bad_regex" THEN Finish(c, "Parse", "regex")
    ELSE IF c.expect = "h" THEN Arm(c, "xread")
    ELSE Arm(c, "nread")

\* TcpStream::connect succeeds. HTTP: the method and the request are built
\* (Parse), the handshake runs without a timeout and is taken to need no time
\* (Http), then send_request starts under a fresh timeout(T). TCP: write_all
\* under a fresh timeout(T) when there is data
ConnectOk ==
    /\ call.phase = "connect"
    /\ now <= call.timer
    /\ IF call.proto = "HTTP"
       THEN \E prep \in {"ok", "Parse", "Http"} :
                call' = IF prep = "ok" THEN Arm(call, "send")
                        ELSE Finish(call, prep, "prepare")
       ELSE call' = IF HasData(call.data)
                    THEN [Arm(call, "write") EXCEPT !.wrote = TRUE]
                    ELSE AfterWrite(call)
    /\ UNCHANGED <<tui, twin, conf, st, runnerVars>>

ConnectRefused ==
    /\ call.phase = "connect"
    /\ now <= call.timer
    /\ call' = Finish(call, "ConnectionRefused", "connect")
    /\ UNCHANGED <<tui, twin, conf, st, runnerVars>>

ConnectTimeout ==
    /\ call.phase = "connect"
    /\ now >= call.timer
    /\ call' = Finish(call, "ConnectionTimeout", "timeout")
    /\ UNCHANGED <<tui, twin, conf, st, runnerVars>>

\* sender.send_request returns the response head; collect starts under a
\* fresh timeout(T)
SendRequestOk ==
    /\ call.phase = "send"
    /\ now <= call.timer
    /\ \E status \in Statuses : call' = [Arm(call, "collect") EXCEPT !.status = status]
    /\ UNCHANGED <<tui, twin, conf, st, runnerVars>>

SendRequestErr ==
    /\ call.phase = "send"
    /\ now <= call.timer
    /\ call' = Finish(call, "Http", "send")
    /\ UNCHANGED <<tui, twin, conf, st, runnerVars>>

SendRequestTimeout ==
    /\ call.phase = "send"
    /\ now >= call.timer
    /\ call' = Finish(call, "RequestTimeout", "timeout")
    /\ UNCHANGED <<tui, twin, conf, st, runnerVars>>

CollectOk ==
    /\ call.phase = "collect"
    /\ now <= call.timer
    /\ call' = Finish(call, "Ok", "body")
    /\ UNCHANGED <<tui, twin, conf, st, runnerVars>>

CollectErr ==
    /\ call.phase = "collect"
    /\ now <= call.timer
    /\ call' = Finish(call, "Http", "collect")
    /\ UNCHANGED <<tui, twin, conf, st, runnerVars>>

CollectTimeout ==
    /\ call.phase = "collect"
    /\ now >= call.timer
    /\ call' = Finish(call, "RequestTimeout", "timeout")
    /\ UNCHANGED <<tui, twin, conf, st, runnerVars>>

WriteOk ==
    /\ call.phase = "write"
    /\ now <= call.timer
    /\ call' = AfterWrite(call)
    /\ UNCHANGED <<tui, twin, conf, st, runnerVars>>

WriteErr ==
    /\ call.phase = "write"
    /\ now <= call.timer
    /\ call' = Finish(call, "Io", "write")
    /\ UNCHANGED <<tui, twin, conf, st, runnerVars>>

WriteTimeout ==
    /\ call.phase = "write"
    /\ now >= call.timer
    /\ call' = Finish(call, "RequestTimeout", "timeout")
    /\ UNCHANGED <<tui, twin, conf, st, runnerVars>>

\* the expect loop: stream.read returns n > 0 bytes at whatever time the peer
\* sends them; the buffer is tested, and only then is the deadline looked at
ExpectRead ==
    /\ call.phase = "xread"
    /\ Len(call.buf) < MaxReads
    /\ \E b \in Chunks :
         LET c == [call EXCEPT !.buf = Append(call.buf, b)]
         IN  call' = IF Found(c.buf) THEN Finish(c, "Ok", "match")
                     ELSE IF now < c.timer THEN c
                     ELSE Finish(c, "ResponseValidation", "deadline")
    /\ UNCHANGED <<tui, twin, conf, st, runnerVars>>

\* Ok(0) => break, then `if !found`
ExpectEof ==
    /\ call.phase = "xread"
    /\ call' = Finish(call, "ResponseValidation", "eof")
    /\ UNCHANGED <<tui, twin, conf, st, runnerVars>>

ExpectReadErr ==
    /\ call.phase = "xread"
    /\ call' = Finish(call, "Io", "read")
    /\ UNCHANGED <<tui, twin, conf, st, runnerVars>>

\* the loop without a pattern, the whole of it under one timeout(T)
PlainRead ==
    /\ call.phase = "nread"
    /\ now <= call.timer
    /\ Len(call.buf) < MaxReads
    /\ \E b \in Chunks : call' = [call EXCEPT !.buf = Append(call.buf, b)]
    /\ UNCHANGED <<tui, twin, conf, st, runnerVars>>

PlainEof ==
    /\ call.phase = "nread"
    /\ now <= call.timer
    /\ call' = Finish(call, "Ok", "eof")
    /\ UNCHANGED <<tui, twin, conf, st, runnerVars>>

PlainReadErr ==
    /\ call.phase = "nread"
    /\ now <= call.timer
    /\ call' = Finish(call, "Io", "read")
    /\ UNCHANGED <<tui, twin, conf, st, runnerVars>>

NoExpectTimeoutIsError == "RequestTimeout"

\* `Err(_) => {}`: the timeout arm falls through to Ok((response, elapsed))
NoExpectTimeoutOutcome == "Ok"

PlainTimeout ==
    /\ call.phase = "nread"
    /\ now >= call.timer
    /\ call' = Finish(call, NoExpectTimeoutOutcome, "read_timeout")
    /\ UNCHANGED <<tui, twin, conf, st, runnerVars>>

\* time passes: before the call, and during it while the pending future can
\* still wait; stream.read in the expect loop is under no timer
AdapterTick ==
    /\ \/ call.phase = "none" /\ now < MaxStart
       \/ call.phase = "xread" /\ now < MaxTime
       \/ call.phase \in {"connect", "send", "collect", "write", "nread"} /\ now < call.timer
    /\ now' = now + 1
    /\ UNCHANGED <<tui, twin, conf, call, st, cfg, pc, iter, attemptStart, elapsed, credited,
                   completed_requests, successful_requests, bytes_sent, bytes_received,
                   chan, sup, sleepUntil, joined, aborted, loopExit, response_times,
                   report>>

\* mutant: only a status below 400 takes the success arm
TakesOkArmBelow400(result, status) == result = "Ok" /\ status < 400

\* `Ok((status, body, elapsed)) =>`: status is bound and never looked at
TakesOkArm(result, status) == result = "Ok"

\* the worker's match on what the adapter returned: the Ok arm adds one to
\* successful and hands elapsed to tx_clone.send, the Err arm is empty
HandleResult ==
    /\ call.phase = "returned"
    /\ call' = IF TakesOkArm(call.result, call.status)
               THEN [call EXCEPT !.phase = "handled", !.successful = 1,
                                 !.sample = [sent |-> TRUE, v |-> call.end - call.start]]
               ELSE [call EXCEPT !.phase = "handled"]
    /\ UNCHANGED <<tui, twin, conf, st, runnerVars>>

AdapterInit ==
    /\ RunnerIdle
    /\ tui = NoTui
    /\ call = NoCall
    /\ st = NoStats
    /\ twin = NoTwin
    /\ conf = NoConf

AdapterNext ==
    \/ HandleResult
    \/ HttpCallStart
    \/ TcpCallStart
    \/ ConnectOk
    \/ ConnectRefused
    \/ ConnectTimeout
    \/ SendRequestOk
    \/ SendRequestErr
    \/ SendRequestTimeout
    \/ CollectOk
    \/ CollectErr
    \/ CollectTimeout
    \/ WriteOk
    \/ WriteErr
    \/ WriteTimeout
    \/ ExpectRead
    \/ ExpectEof
    \/ ExpectReadErr
    \/ PlainRead
    \/ PlainEof
    \/ PlainReadErr
    \/ PlainTimeout
    \/ AdapterTick

AdapterSpec == AdapterInit /\ [][AdapterNext]_vars

\* ------------------------------------------ the statistics of one sample set
MaxSamples == 3       \* longest sample vector
MaxLatency == 3       \* largest sample, in clock units

RECURSIVE SeqsUpTo(_, _)
\* the sequences over S of length at most n
SeqsUpTo(S, n) ==
    IF n = 0 THEN {<<>>}
    ELSE LET shorter == SeqsUpTo(S, n - 1)
         IN  shorter \cup {Append(q, x) : q \in shorter, x \in S}

\* the samples 1..10 ms in the order some drain delivered them
ExampleSamples == <<10, 3, 7, 1, 9, 2, 8, 4, 6, 5>>

\* the same samples in another arrival order
ExampleSamplesAscending == <<1, 2, 3, 4, 5, 6, 7, 8, 9, 10>>

SampleVectors ==
    SeqsUpTo(0..MaxLatency, MaxSamples) \cup {ExampleSamples, ExampleSamplesAscending}

\* response_times after the drain, before the sort
StatsInit ==
    /\ RunnerIdle
    /\ tui = NoTui
    /\ call = NoCall
    /\ twin = NoTwin
    /\ conf = NoConf
    /\ st \in [phase : {"drained"}, samples : SampleVectors, out : {NoStats}]

\* the latency fields computed from the sorted Vec
LatencyOf(sorted) ==
    [sorted |-> sorted,
     avg |-> avg_time(sorted),
     min |-> min_time(sorted),
     max |-> max_time(sorted),
     p |-> [pct \in Percents |-> percentile(sorted, pct)]]

\* the statistics taken from the Vec in arrival order
ReduceNoSort ==
    /\ st.phase = "drained"
    /\ st' = [phase |-> "reduced", samples |-> st.samples, out |-> LatencyOf(st.samples)]
    /\ UNCHANGED <<tui, twin, conf, call, runnerVars>>

\* response_times.sort() and the latency statistics
Reduce ==
    /\ st.phase = "drained"
    /\ st' = [phase |-> "reduced", samples |-> st.samples,
              out |-> LatencyOf(Sort(st.samples))]
    /\ UNCHANGED <<tui, twin, conf, call, runnerVars>>

StatsNext == Reduce

StatsSpec == StatsInit /\ [][StatsNext]_vars

\* --------------------------- one worker loop under both values of keep_alive
MaxTwinQuota == 3     \* largest per-worker quota of the compared loops

\* the closure's state at spawn: conn_reuse = None (0), nothing counted yet
NewWorker ==
    [iter |-> 0, stopped |-> FALSE, conn_reuse |-> 0, opened |-> 0, used |-> <<>>,
     completed |-> 0, successful |-> 0, bytes_sent |-> 0, bytes_received |-> 0]

\* one pass of the loop body in which a kept connection is used again
IterateReusing(proto, keep_alive, w, outcome, respLen) ==
    LET reuse == keep_alive /\ w.conn_reuse # 0
        conn == IF reuse THEN w.conn_reuse ELSE w.opened + 1
        ok == outcome = "ok"
    IN  [w EXCEPT !.iter = w.iter + 1,
                  !.conn_reuse = IF keep_alive /\ ok THEN conn ELSE 0,
                  !.opened = IF reuse THEN w.opened ELSE w.opened + 1,
                  !.used = Append(w.used, conn),
                  !.completed = w.completed + 1,
                  !.successful = IF ok THEN w.successful + 1 ELSE w.successful,
                  !.bytes_sent = IF ok THEN w.bytes_sent + BytesSentFor(proto, respLen)
                                 ELSE w.bytes_sent,
                  !.bytes_received = IF ok THEN w.bytes_received + respLen
                                     ELSE w.bytes_received]

\* one pass of the loop body: the adapter call connects for itself
\* (http.rs:27-30, tcp.rs:18-21) and is handed no connection; keep_alive was
\* captured at spawn and is read nowhere, conn_reuse is never assigned
Iterate(proto, keep_alive, w, outcome, respLen) ==
    LET conn == w.opened + 1
        ok == outcome = "ok"
    IN  [w EXCEPT !.iter = w.iter + 1,
                  !.opened = conn,
                  !.used = Append(w.used, conn),
                  !.completed = w.completed + 1,
                  !.successful = IF ok THEN w.successful + 1 ELSE w.successful,
                  !.bytes_sent = IF ok THEN w.bytes_sent + BytesSentFor(proto, respLen)
                                 ELSE w.bytes_sent,
                  !.bytes_received = IF ok THEN w.bytes_received + respLen
                                     ELSE w.bytes_received]

\* two runs whose configurations differ in keep_alive only
TwinInit ==
    /\ RunnerIdle
    /\ tui = NoTui
    /\ call = NoCall
    /\ st = NoStats
    /\ conf = NoConf
    /\ twin \in [phase : {"running"}, protocol : Protocols, quota : 1..MaxTwinQuota,
                 run : {[k \in BOOLEAN |-> NewWorker]}]

TwinRunning == twin.phase = "running" /\ \A k \in BOOLEAN : ~twin.run[k].stopped

\* both loops pass once through their body, the adapter answering both alike
TwinAttempt ==
    /\ TwinRunning
    /\ twin.run[TRUE].iter < twin.quota
    /\ \E outcome \in {"ok", "err"}, respLen \in RespLens :
         twin' = [twin EXCEPT !.run = [k \in BOOLEAN |->
                     Iterate(twin.protocol, k, twin.run[k], outcome, respLen)]]
    /\ UNCHANGED <<tui, conf, call, st, runnerVars>>

\* both loops find the deadline passed and break
TwinDeadline ==
    /\ TwinRunning
    /\ twin.run[TRUE].iter < twin.quota
    /\ twin' = [twin EXCEPT !.run = [k \in BOOLEAN |->
                   [twin.run[k] EXCEPT !.stopped = TRUE]]]
    /\ UNCHANGED <<tui, conf, call, st, runnerVars>>

TwinNext ==
    \/ TwinAttempt
    \/ TwinDeadline

KeepAliveSpec == TwinInit /\ [][TwinNext]_vars

\* ------------------------------ a configuration from its source to a runner
MaxHeaderLen == 3          \* longest header string supplied
Absent == -1               \* Option::None of a numeric option
DefaultConcurrency == 1    \* DEFAULT_CONCURRENCY
DefaultRequests == 2       \* DEFAULT_REQUESTS (100), scaled down
DefaultDuration == 1       \* DEFAULT_DURATION (10 s), scaled down
DefaultTimeout == 3        \* DEFAULT_TIMEOUT (30000 ms), scaled down
MsPerSec == 1000           \* Duration::from_secs against Duration::from_millis

None == [some |-> FALSE, v |-> <<>>]
Some(x) == [some |-> TRUE, v |-> x]

\* Option::unwrap_or on a numeric option
UnwrapOr(opt, default) == IF opt = Absent THEN default ELSE opt

\* characters of a header string: a letter, the colon, a blank
Chars == {"a", ":", " "}
RawHeaders == SeqsUpTo(Chars, MaxHeaderLen)

RECURSIVE TrimStart(_)
TrimStart(s) == IF s # <<>> /\ Head(s) = " " THEN TrimStart(Tail(s)) ELSE s

RECURSIVE TrimEnd(_)
TrimEnd(s) ==
    IF s # <<>> /\ s[Len(s)] = " " THEN TrimEnd(SubSeq(s, 1, Len(s) - 1)) ELSE s

\* str::trim
Trim(s) == TrimEnd(TrimStart(s))

\* position of the first colon, 0 when there is none
FirstColon(h) ==
    IF \E i \in 1..Len(h) : h[i] = ":"
    THEN CHOOSE i \in 1..Len(h) : h[i] = ":" /\ \A j \in 1..(i - 1) : h[j] # ":"
    ELSE 0

\* h.splitn(2, ':'), two parts or the header is dropped; both parts trimmed
SplitHeader(h) ==
    LET i == FirstColon(h)
    IN  IF i = 0 THEN None
        ELSE Some([name |-> Trim(SubSeq(h, 1, i - 1)),
                   value |-> Trim(SubSeq(h, i + 1, Len(h)))])

RECURSIVE ParseHeaders(_)
\* filter_map over the header strings, in order
ParseHeaders(hs) ==
    IF hs = <<>> THEN <<>>
    ELSE LET p == SplitHeader(Head(hs))
         IN  (IF p.some THEN <<p.v>> ELSE <<>>) \o ParseHeaders(Tail(hs))

\* format!("{}:{}", k, v)
FormatHeader(p) == p.name \o <<":">> \o p.value

RECURSIVE AsBytes(_)
\* str::as_bytes / String::into_bytes: U+FFFD is the three bytes EF BF BD
AsBytes(text) ==
    IF text = <<>> THEN <<>>
    ELSE (IF Head(text) = "fffd" THEN <<"ef", "bf", "bd">> ELSE <<Head(text)>>)
         \o AsBytes(Tail(text))

\* String::from_utf8_lossy(bytes).to_string(), OsStr::to_string_lossy
ToStringLossy(bytes) == FromUtf8Lossy(bytes).text

\* the bytes are the encoding of some text
IsUtf8(bytes) == \A i \in 1..Len(bytes) : bytes[i] # "ff"

\* body / data of the constructors: the argument wins over the file, a file
\* that cannot be read gives None
PayloadOf(arg, file) ==
    IF arg.some THEN Some(AsBytes(arg.v))
    ELSE IF file.some /\ file.v.readable THEN Some(file.v.bytes)
    ELSE None

\* HttpConfig::new, TcpConfig::new, UdsConfig::new
NewConfig(a) ==
    [kind |-> a.kind,
     target |-> a.target,
     method |-> IF a.kind = "HTTP" THEN (IF a.method.some THEN a.method.v ELSE <<"GET">>)
                ELSE <<>>,
     headers |-> IF a.kind = "HTTP" /\ a.headers.some THEN ParseHeaders(a.headers.v)
                 ELSE <<>>,
     payload |-> PayloadOf(a.payload, a.payload_file),
     expect |-> IF a.kind = "HTTP" THEN None ELSE a.expect,
     concurrency |-> UnwrapOr(a.concurrency, DefaultConcurrency),
     requests |-> UnwrapOr(a.requests, DefaultRequests),
     duration |-> UnwrapOr(a.duration, DefaultDuration) * MsPerSec,
     timeout |-> UnwrapOr(a.timeout, DefaultTimeout),
     keep_alive |-> a.keep_alive]

\* the duration is stored as its count of milliseconds
AsSecsInMillis(d) == d

\* Duration::as_secs of a duration held in milliseconds
AsSecs(d) == d \div MsPerSec

\* From<&HttpConfig> for HttpConfigSave, and the TCP and UDS forms
ToSave(c) ==
    [kind |-> c.kind,
     target |-> IF c.kind = "UDS" THEN ToStringLossy(c.target) ELSE c.target,
     method |-> IF c.kind = "HTTP" THEN Some(c.method) ELSE None,
     headers |-> IF c.headers = <<>> THEN None
                 ELSE Some([i \in 1..Len(c.headers) |-> FormatHeader(c.headers[i])]),
     payload |-> IF c.payload.some THEN Some(ToStringLossy(c.payload.v)) ELSE None,
     expect |-> c.expect,
     concurrency |-> c.concurrency,
     requests |-> c.requests,
     duration |-> AsSecs(c.duration),
     timeout |-> c.timeout,
     keep_alive |-> c.keep_alive]

\* to_http_config, to_tcp_config, to_uds_config
ToConfig(s) ==
    [kind |-> s.kind,
     target |-> IF s.kind = "UDS" THEN AsBytes(s.target) ELSE s.target,
     method |-> IF s.kind = "HTTP" THEN (IF s.method.some THEN s.method.v ELSE <<"GET">>)
                ELSE <<>>,
     headers |-> IF s.kind = "HTTP" /\ s.headers.some THEN ParseHeaders(s.headers.v)
                 ELSE <<>>,
     payload |-> IF s.payload.some THEN Some(AsBytes(s.payload.v)) ELSE None,
     expect |-> IF s.kind = "HTTP" THEN None ELSE s.expect,
     concurrency |-> UnwrapOr(s.concurrency, DefaultConcurrency),
     requests |-> UnwrapOr(s.requests, DefaultRequests),
     duration |-> UnwrapOr(s.duration, DefaultDuration) * MsPerSec,
     timeout |-> UnwrapOr(s.timeout, DefaultTimeout),
     keep_alive |-> s.keep_alive]

\* the arguments one source hands to a constructor, all of them defaults but
\* those given
ArgsWith(kind, target, method, headers, payload, payload_file, expect, c, n, d, t, ka) ==
    [kind |-> kind, target |-> target, method |-> method, headers |-> headers,
     payload |-> payload, payload_file |-> payload_file, expect |-> expect,
     concurrency |-> c, requests |-> n, duration |-> d, timeout |-> t,
     keep_alive |-> ka]

TargetsOf(kind) == IF kind = "UDS" THEN {<<"a">>, <<"a", "ff">>} ELSE {<<"a">>}

Files == {Some([readable |-> TRUE, bytes |-> <<"a">>]),
          Some([readable |-> TRUE, bytes |-> <<"ff", "a">>]),
          Some([readable |-> FALSE, bytes |-> <<>>])}

\* the numeric options vary: absent (or, in a TUI field, not a number), 0, more
NumericArgs ==
    {ArgsWith(kind, <<"a">>, None, None, None, None, None, c, n, d, t, ka) :
        kind \in Protocols, c \in {Absent, 0, 1, 2}, n \in {Absent, 0, 1},
        d \in {Absent, 0, 1}, t \in {Absent, 0, 1}, ka \in BOOLEAN}

\* the text options vary
TextArgs ==
    {ArgsWith("HTTP", <<"a">>, m, h, b, f, None, 1, 1, 1, 1, FALSE) :
        m \in {None, Some(<<"POST">>)},
        h \in {None} \cup {Some(<<x>>) : x \in RawHeaders}
              \cup {Some(<<x, y>>) : x, y \in {<<"a", ":", "a">>, <<" ", ":", ":">>}},
        b \in {None, Some(<<>>), Some(<<"a">>)}, f \in {None} \cup Files}
    \cup
    UNION {{ArgsWith(kind, target, None, None, b, f, e, 1, 1, 1, 1, FALSE) :
               target \in TargetsOf(kind),
               b \in {None, Some(<<"a">>)}, f \in {None} \cup Files,
               e \in {None, Some(<<"h">>)}} : kind \in {"TCP", "UDS"}}

\* options given on the command line, typed into the TUI, or read from the store
ConfigInit ==
    /\ RunnerIdle
    /\ tui = NoTui
    /\ call = NoCall
    /\ st = NoStats
    /\ twin = NoTwin
    /\ conf \in [phase : {"supplied"}, source : {"cli", "tui", "store"},
                 args : NumericArgs \cup TextArgs,
                 config : {None}, saved : {None}, loaded : {None}]

\* the record a store entry holds for these options: Option fields as given
StoreRecord(a) ==
    [kind |-> a.kind, target |-> a.target, method |-> a.method, headers |-> a.headers,
     payload |-> a.payload, expect |-> a.expect, concurrency |-> a.concurrency,
     requests |-> a.requests, duration |-> a.duration, timeout |-> a.timeout,
     keep_alive |-> a.keep_alive]

\* main.rs and tui.rs call the constructor with the options; a store entry is
\* converted by to_*_config. The result is what the runner is built from
BuildConfig ==
    /\ conf.phase = "supplied"
    /\ conf' = [conf EXCEPT !.phase = "built",
                            !.config = IF conf.source = "store"
                                       THEN Some(ToConfig(StoreRecord(conf.args)))
                                       ELSE Some(NewConfig(conf.args))]
    /\ UNCHANGED <<tui, twin, call, st, runnerVars>>

\* http_config_to_save / tcp_config_to_save / uds_config_to_save
SaveConfig ==
    /\ conf.phase = "built"
    /\ conf' = [conf EXCEPT !.phase = "saved", !.saved = Some(ToSave(conf.config.v))]
    /\ UNCHANGED <<tui, twin, call, st, runnerVars>>

\* to_http_config / to_tcp_config / to_uds_config on the saved form
LoadConfig ==
    /\ conf.phase = "saved"
    /\ conf' = [conf EXCEPT !.phase = "loaded", !.loaded = Some(ToConfig(conf.saved.v))]
    /\ UNCHANGED <<tui, twin, call, st, runnerVars>>

ConfigNext ==
    \/ BuildConfig
    \/ SaveConfig
    \/ LoadConfig

ConfigSpec == ConfigInit /\ [][ConfigNext]_vars

\* ------------------------------------- the per-worker quota in machine words
WordMax == 15              \* usize::MAX, scaled down to a 4-bit word

\* (requests + concurrency - 1) / concurrency on usize: the sum overflows past
\* usize::MAX, which panics in a build with overflow checks (debug) and wraps
\* in one without (release); the quotient is taken of what the sum gave
RequestsPerWorkerWord(n, c, build) ==
    IF n > 0
    THEN IF n + c - 1 > WordMax
         THEN IF build = "debug" THEN [panicked |-> TRUE, value |-> 0]
              ELSE [panicked |-> FALSE, value |-> ((n + c - 1) % (WordMax + 1)) \div c]
         ELSE [panicked |-> FALSE, value |-> (n + c - 1) \div c]
    ELSE [panicked |-> FALSE, value |-> WordMax]

\* a run is about to compute its quota from requests and concurrency
QuotaInit ==
    /\ RunnerIdle
    /\ tui = NoTui
    /\ call = NoCall
    /\ st = NoStats
    /\ twin = NoTwin
    /\ conf \in [phase : {"quota_in"}, requests : 0..WordMax, concurrency : 1..WordMax,
                 build : {"none"}, quota : {[panicked |-> FALSE, value |-> 0]}]

\* the first lines of run, in either build
ComputeQuota ==
    /\ conf.phase = "quota_in"
    /\ \E build \in {"debug", "release"} :
         conf' = [conf EXCEPT !.phase = "quota", !.build = build,
                     !.quota = RequestsPerWorkerWord(conf.requests, conf.concurrency, build)]
    /\ UNCHANGED <<tui, twin, call, st, runnerVars>>

QuotaNext == ComputeQuota

QuotaSpec == QuotaInit /\ [][QuotaNext]_vars

\* ------------------------------------------------------------------ the TUI
MaxTextLen == 1            \* longest content typed into the textarea
DefaultTuiConcurrency == 1 \* content.parse::<usize>().unwrap_or(1)
Radix == 10                \* usize::to_string / str::parse are decimal

PageSeq == <<"Http", "Tcp", "Uds", "Results", "Configs", "Help">>
Pages == {PageSeq[i] : i \in 1..Len(PageSeq)}
BenchPages == {"Http", "Tcp", "Uds"}

PageIndex(p) == CHOOSE i \in 1..Len(PageSeq) : PageSeq[i] = p

\* Page::next, Page::prev
PageNext(p) == PageSeq[(PageIndex(p) % Len(PageSeq)) + 1]
PagePrev(p) == PageSeq[((PageIndex(p) + Len(PageSeq) - 2) % Len(PageSeq)) + 1]

\* the fields handle_field_navigation walks through on a page, from no focus down
FieldSeq(p) ==
    IF p = "Http" THEN <<"None", "Url", "Method", "Headers", "Body",
                         "Concurrency", "Requests", "Duration", "Timeout">>
    ELSE IF p = "Tcp" THEN <<"None", "Address", "Data", "Expect",
                              "Concurrency", "Requests", "Duration", "Timeout">>
    ELSE IF p = "Uds" THEN <<"None", "Path", "Data", "Expect",
                              "Concurrency", "Requests", "Duration", "Timeout">>
    ELSE <<>>

\* fields whose options the model follows: the target of each page and its
\* concurrency; the content of the other options is not followed
TargetPage(f) ==
    IF f = "Url" THEN "Http" ELSE IF f = "Address" THEN "Tcp"
    ELSE IF f = "Path" THEN "Uds" ELSE "none"

\* textarea contents: digit strings up to MaxTextLen; the character typed is "0"
Digits == {"0", "1"}
TypedChars == {"0"}
Texts == SeqsUpTo(Digits, MaxTextLen)

RECURSIVE ParseDigits(_)
ParseDigits(s) ==
    IF s = <<>> THEN 0
    ELSE ParseDigits(SubSeq(s, 1, Len(s) - 1)) * Radix
         + (IF s[Len(s)] = "0" THEN 0 ELSE 1)

\* content.parse::<usize>().unwrap_or(1): the empty string is no number
ParseOrDefault(s) == IF s = <<>> THEN DefaultTuiConcurrency ELSE ParseDigits(s)

RECURSIVE UsizeToString(_)
\* usize::to_string
UsizeToString(n) ==
    IF n < Radix THEN <<IF n = 0 THEN "0" ELSE "1">>
    ELSE UsizeToString(n \div Radix) \o <<IF n % Radix = 0 THEN "0" ELSE "1">>

\* HttpOptions::default and the like: no target, concurrency 1
DefaultOptions == [target |-> <<>>, concurrency |-> DefaultTuiConcurrency]

NoSnapshot == [page |-> "none", target |-> <<>>, concurrency |-> 0]
NoTask == [phase |-> "none", pressed |-> NoSnapshot, snap |-> NoSnapshot]

\* page and the options of that page
SnapshotOf(t) ==
    IF t.page \in BenchPages
    THEN [page |-> t.page, target |-> t.opts[t.page].target,
          concurrency |-> t.opts[t.page].concurrency]
    ELSE [page |-> t.page, target |-> <<>>, concurrency |-> 0]

\* ConfigStore::list: the keys of the HashMap, in whatever order it iterates
Lists(store) ==
    {l \in [1..Cardinality(DOMAIN store) -> DOMAIN store] :
        \A i, j \in DOMAIN l : i # j => l[i] # l[j]}

\* ConfigStore::add: HashMap::insert, an existing record is replaced
StoreAdd(store, name, rec) ==
    [n \in DOMAIN store \cup {name} |-> IF n = name THEN rec ELSE store[n]]

\* ConfigStore::remove
StoreRemove(store, name) == [n \in DOMAIN store \ {name} |-> store[n]]

\* AppState::new with the store read from the file and the options given
NewAppState(store, names, opts) ==
    [phase |-> "app", page |-> "Http", focus |-> "None", mode |-> "Normal",
     text |-> <<>>, action |-> "None", selected |-> Absent, opts |-> opts,
     store |-> store, names |-> names, is_running |-> FALSE, tasks |-> 0,
     task |-> NoTask]

\* state.current_field_value for the focused field; the content of an option
\* the model does not follow may be any text
FieldValues(t) ==
    IF t.focus = "None" THEN {<<>>}
    ELSE IF TargetPage(t.focus) # "none" THEN {t.opts[TargetPage(t.focus)].target}
    ELSE IF t.focus = "Concurrency"
         THEN {IF t.page \in BenchPages THEN UsizeToString(t.opts[t.page].concurrency)
               ELSE <<>>}
    ELSE Texts

\* the textarea is set on every entry into insert mode and read only in
\* insert mode: outside it the model holds it empty
LeaveInsert(t) == [t EXCEPT !.mode = "Normal", !.text = <<>>]

\* Tab / Right and BackTab / Left in normal mode
KeyNextPage ==
    /\ tui.phase = "app"
    /\ tui.mode = "Normal"
    /\ tui' = [tui EXCEPT !.page = PageNext(tui.page)]
    /\ UNCHANGED <<twin, conf, call, st, runnerVars>>

KeyPrevPage ==
    /\ tui.phase = "app"
    /\ tui.mode = "Normal"
    /\ tui' = [tui EXCEPT !.page = PagePrev(tui.page)]
    /\ UNCHANGED <<twin, conf, call, st, runnerVars>>

\* handle_field_navigation: one step down or up the page's fields; a focus
\* that is not a field of the page matches no arm
HandleFieldNavigation(t, key) ==
    LET fs == FieldSeq(t.page)
    IN  IF \E i \in 1..Len(fs) : fs[i] = t.focus
        THEN LET i == CHOOSE k \in 1..Len(fs) : fs[k] = t.focus
             IN  IF key = "Down" /\ i < Len(fs) THEN [t EXCEPT !.focus = fs[i + 1]]
                 ELSE IF key = "Up" /\ i > 1 THEN [t EXCEPT !.focus = fs[i - 1]]
                 ELSE t
        ELSE t

\* Up and Down on the Configs page move the selection in config_names
SelectConfig(t, key) ==
    IF t.selected # Absent
    THEN IF key = "Up" /\ t.selected > 0 THEN [t EXCEPT !.selected = @ - 1]
         ELSE IF key = "Down" /\ t.selected < Len(t.names) - 1
              THEN [t EXCEPT !.selected = @ + 1]
         ELSE t
    ELSE IF t.names # <<>>
         THEN [t EXCEPT !.selected = IF key = "Up" THEN Len(t.names) - 1 ELSE 0]
         ELSE t

\* Up / Down in normal mode on the Configs page
KeySelect ==
    /\ tui.phase = "app"
    /\ tui.mode = "Normal"
    /\ tui.page = "Configs"
    /\ \E key \in {"Up", "Down"} : tui' = SelectConfig(tui, key)
    /\ UNCHANGED <<twin, conf, call, st, runnerVars>>

\* Up / Down in normal mode on any other page
KeyNavigate ==
    /\ tui.phase = "app"
    /\ tui.mode = "Normal"
    /\ tui.page # "Configs"
    /\ \E key \in {"Up", "Down"} : tui' = HandleFieldNavigation(tui, key)
    /\ UNCHANGED <<twin, conf, call, st, runnerVars>>

\* 'i' in normal mode: insert mode, the textarea holds the focused field's value
KeyInsert ==
    /\ tui.phase = "app"
    /\ tui.mode = "Normal"
    /\ \E v \in FieldValues(tui) : tui' = [tui EXCEPT !.mode = "Insert", !.text = v]
    /\ UNCHANGED <<twin, conf, call, st, runnerVars>>

\* a character key in insert mode
KeyChar ==
    /\ tui.phase = "app"
    /\ tui.mode = "Insert"
    /\ Len(tui.text) < MaxTextLen
    /\ \E c \in TypedChars : tui' = [tui EXCEPT !.text = Append(@, c)]
    /\ UNCHANGED <<twin, conf, call, st, runnerVars>>

\* Backspace in insert mode
KeyBackspace ==
    /\ tui.phase = "app"
    /\ tui.mode = "Insert"
    /\ tui.text # <<>>
    /\ tui' = [tui EXCEPT !.text = SubSeq(@, 1, Len(@) - 1)]
    /\ UNCHANGED <<twin, conf, call, st, runnerVars>>

\* Esc in insert mode
KeyEsc ==
    /\ tui.phase = "app"
    /\ tui.mode = "Insert"
    /\ tui' = LeaveInsert(tui)
    /\ UNCHANGED <<twin, conf, call, st, runnerVars>>

\* the record save_current_config builds from the options of the page
SaveRecord(t) ==
    [kind |-> t.page, target |-> t.opts[t.page].target,
     concurrency |-> t.opts[t.page].concurrency]

\* AppState::save_current_config: match self.page, add, save(path)?, refresh
\* of the names; any page but Http, Tcp, Uds returns Err before the add
SaveCurrentConfig(t, name, disk, l) ==
    IF t.page \notin BenchPages THEN [ok |-> FALSE, t |-> t]
    ELSE LET added == [t EXCEPT !.store = StoreAdd(t.store, name, SaveRecord(t))]
         IN  IF disk = "fail" THEN [ok |-> FALSE, t |-> added]
             ELSE [ok |-> TRUE, t |-> [added EXCEPT !.names = l]]

\* AppState::delete_config: remove, save(path)?, refresh of the names
DeleteConfig(t, name, disk, l) ==
    IF name \notin DOMAIN t.store THEN [ok |-> FALSE, t |-> t]
    ELSE LET removed == [t EXCEPT !.store = StoreRemove(t.store, name)]
         IN  IF disk = "fail" THEN [ok |-> FALSE, t |-> removed]
             ELSE [ok |-> TRUE, t |-> [removed EXCEPT !.names = l]]

\* AppState::load_config: the record's options go to its page, which is shown
TuiLoadConfig(t, name) ==
    IF name \notin DOMAIN t.store THEN t
    ELSE LET rec == t.store[name]
         IN  [t EXCEPT !.opts[rec.kind] =
                          [target |-> rec.target,
                           concurrency |-> UnwrapOr(rec.concurrency, DefaultTuiConcurrency)],
                       !.page = rec.kind]

\* the store after the operation on it, whose keys list() then enumerates
StoreAfterSave(t, name) ==
    IF t.page \in BenchPages THEN StoreAdd(t.store, name, SaveRecord(t)) ELSE t.store

\* Enter in insert mode: on the Configs page with the Save action the content
\* is the name to save under; otherwise it is committed to the focused field
EnterInsert(t, disk, l) ==
    IF t.page = "Configs" /\ t.action = "Save"
    THEN IF t.text = <<>> THEN LeaveInsert(t)
         ELSE LET r == SaveCurrentConfig(t, t.text, disk, l)
              IN  IF r.ok THEN LeaveInsert([r.t EXCEPT !.action = "None"])
                  ELSE LeaveInsert(r.t)
    ELSE IF TargetPage(t.focus) # "none"
         THEN LeaveInsert([t EXCEPT !.opts[TargetPage(t.focus)].target = t.text])
    ELSE IF t.focus = "Concurrency" /\ t.page \in BenchPages
         THEN LeaveInsert([t EXCEPT !.opts[t.page].concurrency = ParseOrDefault(t.text)])
    ELSE LeaveInsert(t)

KeyEnterInsert ==
    /\ tui.phase = "app"
    /\ tui.mode = "Insert"
    /\ \E disk \in {"ok", "fail"} :
         \E l \in Lists(StoreAfterSave(tui, tui.text)) : tui' = EnterInsert(tui, disk, l)
    /\ UNCHANGED <<twin, conf, call, st, runnerVars>>

\* 'l', 's', 'd' on the Configs page in normal mode
KeyConfigAction ==
    /\ tui.phase = "app"
    /\ tui.mode = "Normal"
    /\ tui.page = "Configs"
    /\ \E a \in {"Load", "Save", "Delete"} : tui' = [tui EXCEPT !.action = a]
    /\ UNCHANGED <<twin, conf, call, st, runnerVars>>

\* Enter in normal mode on the Configs page
EnterConfigs(t, disk, l) ==
    IF t.action = "Load"
    THEN IF t.selected # Absent /\ t.selected < Len(t.names)
         THEN [TuiLoadConfig(t, t.names[t.selected + 1]) EXCEPT !.action = "None"]
         ELSE [t EXCEPT !.action = "None"]
    ELSE IF t.action = "Delete"
    THEN IF t.selected # Absent /\ t.selected < Len(t.names)
         THEN LET r == DeleteConfig(t, t.names[t.selected + 1], disk, l)
              IN  IF r.ok THEN [r.t EXCEPT !.selected = Absent, !.action = "None"]
                  ELSE [r.t EXCEPT !.action = "None"]
         ELSE [t EXCEPT !.action = "None"]
    ELSE IF t.action = "None" THEN [t EXCEPT !.action = "Save"]
    ELSE t

\* the store after the delete Enter asks for
StoreAfterDelete(t) ==
    IF t.action = "Delete" /\ t.selected # Absent /\ t.selected < Len(t.names)
       /\ t.names[t.selected + 1] \in DOMAIN t.store
    THEN StoreRemove(t.store, t.names[t.selected + 1])
    ELSE t.store

KeyEnterConfigs ==
    /\ tui.phase = "app"
    /\ tui.mode = "Normal"
    /\ tui.page = "Configs"
    /\ \E disk \in {"ok", "fail"} :
         \E l \in Lists(StoreAfterDelete(tui)) : tui' = EnterConfigs(tui, disk, l)
    /\ UNCHANGED <<twin, conf, call, st, runnerVars>>

\* records a configs.json may hold when the TUI starts
StoredRecords ==
    [n \in {<<"0">>, <<"1">>} |->
        IF n = <<"0">> THEN [kind |-> "Http", target |-> <<"0">>, concurrency |-> 0]
        ELSE [kind |-> "Tcp", target |-> <<"1">>, concurrency |-> Absent]]

StartStores == {[n \in S |-> StoredRecords[n]] : S \in SUBSET (DOMAIN StoredRecords)}

\* the TUI after AppState::new: the store loaded from the file, its names
\* listed, every option at its default; the keys of the Configs page, the page
\* keys and the insert-mode keys are pressed, with no field focused
TuiConfigInit ==
    /\ RunnerIdle
    /\ call = NoCall
    /\ st = NoStats
    /\ twin = NoTwin
    /\ conf = NoConf
    /\ \E store \in StartStores : \E l \in Lists(store) :
         tui = NewAppState(store, l, [p \in BenchPages |-> DefaultOptions])

TuiConfigNext ==
    \/ KeyNextPage
    \/ KeyPrevPage
    \/ KeySelect
    \/ KeyInsert
    \/ KeyChar
    \/ KeyBackspace
    \/ KeyEsc
    \/ KeyEnterInsert
    \/ KeyConfigAction
    \/ KeyEnterConfigs

TuiConfigSpec == TuiConfigInit /\ [][TuiConfigNext]_vars

\* 'r' in normal mode: unless is_running, run_benchmark is spawned and
\* is_running set, both under the handler's lock
KeyRun ==
    /\ tui.phase = "app"
    /\ tui.mode = "Normal"
    /\ tui' = IF ~tui.is_running
              THEN [tui EXCEPT !.is_running = TRUE,
                               !.tasks = @ + 1,
                               !.task = [phase |-> "spawned", pressed |-> SnapshotOf(tui),
                                         snap |-> NoSnapshot]]
              ELSE tui
    /\ UNCHANGED <<twin, conf, call, st, runnerVars>>

\* run_benchmark, first lock: the page and the options are copied
TaskSnapshot ==
    /\ tui.phase = "app"
    /\ tui.task.phase = "spawned"
    /\ tui' = [tui EXCEPT !.task = [phase |-> "copied", pressed |-> NoSnapshot,
                                    snap |-> SnapshotOf(tui)]]
    /\ UNCHANGED <<twin, conf, call, st, runnerVars>>

\* the copy names a page with a benchmark and a target that is not empty
CanRun(snap) == snap.page \in BenchPages /\ snap.target # <<>>

\* run_benchmark with an empty target or on a page without a benchmark: the
\* error message, is_running = false, return
TaskReject ==
    /\ tui.phase = "app"
    /\ tui.task.phase = "copied"
    /\ ~CanRun(tui.task.snap)
    /\ tui' = [tui EXCEPT !.is_running = FALSE, !.tasks = @ - 1, !.task = NoTask]
    /\ UNCHANGED <<twin, conf, call, st, runnerVars>>

\* how runner.run() can end for the copied options: with concurrency 0 the
\* quota's division panics when requests > 0 (the content of requests is
\* not followed: with requests = 0 the run has no worker and reports)
RunOutcomes(snap) ==
    IF snap.concurrency = 0 THEN {"panic", "Ok"} ELSE {"Ok", "Err"}

\* run_benchmark after runner.run().await: is_running = false, and a report
\* switches the page to Results; a panic in run() ends the task there
TaskFinish ==
    /\ tui.phase = "app"
    /\ tui.task.phase = "copied"
    /\ CanRun(tui.task.snap)
    /\ \E outcome \in RunOutcomes(tui.task.snap) :
         tui' = IF outcome = "panic"
                THEN [tui EXCEPT !.tasks = @ - 1, !.task = NoTask]
                ELSE IF outcome = "Ok"
                THEN [tui EXCEPT !.is_running = FALSE, !.tasks = @ - 1,
                                 !.task = NoTask, !.page = "Results"]
                ELSE [tui EXCEPT !.is_running = FALSE, !.tasks = @ - 1, !.task = NoTask]
    /\ UNCHANGED <<twin, conf, call, st, runnerVars>>

\* the TUI after AppState::new with no saved configuration; the page keys, the
\* field keys, the insert-mode keys and 'r' are pressed while the spawned
\* task takes its steps
TuiRunInit ==
    /\ RunnerIdle
    /\ call = NoCall
    /\ st = NoStats
    /\ twin = NoTwin
    /\ conf = NoConf
    /\ tui = NewAppState(<<>>, <<>>, [p \in BenchPages |-> DefaultOptions])

TuiRunNext ==
    \/ KeyNextPage
    \/ KeyPrevPage
    \/ KeyNavigate
    \/ KeyInsert
    \/ KeyChar
    \/ KeyBackspace
    \/ KeyEsc
    \/ KeyEnterInsert
    \/ KeyRun
    \/ TaskSnapshot
    \/ TaskReject
    \/ TaskFinish

TuiRunSpec == TuiRunInit /\ [][TuiRunNext]_vars

\* ------------------------------------------------------------------ claims
Reported == report # NoReport

\* C1: in every report total_requests = successful_requests + failed_requests,
\* and successful_requests never exceeds total_requests.
C1_TotalIsSuccessfulPlusFailed ==
    Reported =>
        /\ report.total_requests = report.successful_requests + report.failed_requests
        /\ report.successful_requests <= report.total_requests

\* C2: in every report the number of samples handed to the reducer equals
\* successful_requests.
C2_OneSamplePerSuccess ==
    Reported => Len(report.samples) = report.successful_requests

\* C3: when N > 0 the completed counter never exceeds N + (C - 1), and no worker
\* finishes more than Q = ceil(N / C) iterations.
C3_CompletedCeiling ==
    cfg.requests > 0 =>
        /\ completed_requests <= cfg.requests + (cfg.concurrency - 1)
        /\ \A w \in Workers : iter[w] <= requests_per_worker

\* the slack is used: more than one worker, and completed has reached N + C - 1 > N
C3_Witness ==
    /\ cfg.requests > 0
    /\ cfg.concurrency > 1
    /\ completed_requests = cfg.requests + (cfg.concurrency - 1)

\* C4: every adapter call in flight was issued before the deadline.
C4_NoAttemptAtOrAfterDeadline ==
    \A w \in Workers : pc[w] = "attempt" => attemptStart[w] < stop_time

\* a worker with quota left has finished an attempt and left its loop at the deadline
C4_Witness ==
    \E w \in Workers :
        /\ pc[w] = "done"
        /\ iter[w] > 0
        /\ requests_per_worker = Unbounded \/ iter[w] < requests_per_worker
        /\ now >= stop_time

\* a step in which worker w's adapter call returns an error: the call ends, and
\* it ends neither in the Ok arm nor by cancellation
FailureStep(w) ==
    /\ pc[w] = "attempt"
    /\ pc'[w] \notin {"send", "cancelled"}
    /\ pc'[w] # "attempt" \/ iter'[w] # iter[w]

\* C5: a failed attempt adds one to completed, leaves successful and both byte
\* counters unchanged, enqueues no sample, and the worker is at its next loop top.
C5_FailureAbsorbed ==
    [][\A w \in Workers :
        FailureStep(w) =>
            /\ completed_requests' = completed_requests + 1
            /\ iter'[w] = iter[w] + 1
            /\ successful_requests' = successful_requests
            /\ bytes_sent' = bytes_sent
            /\ bytes_received' = bytes_received
            /\ chan' = chan
            /\ pc'[w] = IF IssuesAttempt(iter[w] + 1) THEN "attempt" ELSE "done"]_vars

\* a report of a run whose only worker failed twice: it went on after a failure
C5_Witness ==
    /\ Reported
    /\ cfg.concurrency = 1
    /\ report.successful_requests = 0
    /\ report.failed_requests >= 2

\* C6: a cancelled worker's unfinished attempt has added nothing to any counter.
C6_CancelledAttemptAddsNothing ==
    \A w \in Workers : pc[w] = "cancelled" => ~credited[w]

\* C7: no worker is ever suspended on the sample channel.
C7_SendNeverBlocks ==
    \A w \in Workers : pc[w] # "sendwait"

\* C8: the runner eventually returns a report.
C8_Terminates == <>Reported

\* a report of a run that ended by cancelling one worker inside the adapter and
\* another one on the sample channel
C8_Witness ==
    /\ Reported
    /\ cfg.duration > 0
    /\ \E w1, w2 \in Workers :
        /\ pc[w1] = "cancelled" /\ credited[w1]
        /\ pc[w2] = "cancelled" /\ ~credited[w2] /\ iter[w2] = 0

\* C9: the wait loop is left at most one tick after the deadline, and total_time
\* is at most D + tick + T.
C9_TotalTimeBound ==
    /\ sup \in {"drain", "done"} => loopExit <= stop_time + TickLen
    /\ Reported => report.total_time <= cfg.duration + TickLen + Timeout

\* a report whose total_time is past a non-zero duration
C9_Witness ==
    /\ Reported
    /\ cfg.duration > 0
    /\ report.total_time > cfg.duration

\* C10: once the report exists every worker has terminated or been cancelled and
\* the counters still have the values the report shows.
C10_SnapshotAfterWorkers ==
    Reported =>
        /\ \A w \in Workers : Terminated(w)
        /\ report.total_requests = completed_requests
        /\ report.successful_requests = successful_requests
        /\ report.bytes_sent = bytes_sent
        /\ report.bytes_received = bytes_received

\* a report of a run in which one worker ended by itself and another was cancelled
C10_Witness ==
    /\ Reported
    /\ completed_requests > 0
    /\ \E w \in Workers : pc[w] = "done"
    /\ \E w \in Workers : pc[w] = "cancelled"

\* C11: an HTTP attempt started at s has returned, or can still return, no
\* later than s + T: connect, send and body read share the one budget T
C11_HttpReturnsWithinT ==
    (call.phase # "none" /\ call.proto = "HTTP") =>
        IF call.phase = "returned"
        THEN call.end <= call.start + Timeout
        ELSE now <= call.start + Timeout

\* C12: with an expect pattern, once the per-attempt deadline has passed
\* without a match the attempt has ended (with ResponseValidation), also when
\* the peer keeps the connection open and sends nothing
C12_DeadlineEndsExpectRead ==
    (call.phase # "none" /\ call.proto = "TCP" /\ call.expect = "h") =>
        /\ call.phase = "xread" => now <= call.timer
        /\ (call.phase = "returned" /\ call.how = "deadline") =>
               call.result = "ResponseValidation" /\ call.end <= call.timer

\* the accumulated response after its first k reads
Prefix(buf, k) == SubSeq(buf, 1, k)

\* the pattern is found in the response read as text, invalid bytes replaced
RegexMatchesResponse(buf) == IsMatch(FromUtf8Lossy(buf).text)

\* the response is valid UTF-8 and the pattern is found in it
RegexMatchesValidUtf8(buf) ==
    /\ \A i \in 1..Len(buf) : buf[i] # "ff"
    /\ \E i \in 1..Len(buf) : buf[i] = "h"

\* C13 as stated: with an expect pattern the call returns Ok exactly when,
\* after some read, the regex matches the accumulated response, and it reads
\* no further than the first such read; EOF before a match is ResponseValidation
C13_SuccessIffMatch ==
    (call.phase # "none" /\ call.proto = "TCP" /\ call.expect = "h") =>
        /\ (call.phase = "returned" /\ call.result = "Ok") =>
               /\ RegexMatchesResponse(call.buf)
               /\ \A k \in 0..(Len(call.buf) - 1) : ~RegexMatchesResponse(Prefix(call.buf, k))
        /\ (call.phase = "xread" \/ (call.phase = "returned" /\ call.result # "Ok")) =>
               \A k \in 0..Len(call.buf) : ~RegexMatchesResponse(Prefix(call.buf, k))
        /\ (call.phase = "returned" /\ call.how = "eof") =>
               call.result = "ResponseValidation"

\* C13 amended: the same, where "matches" means that the accumulated response
\* is valid UTF-8 and the regex matches it
C13_SuccessIffValidUtf8Match ==
    (call.phase # "none" /\ call.proto = "TCP" /\ call.expect = "h") =>
        /\ (call.phase = "returned" /\ call.result = "Ok") =>
               /\ RegexMatchesValidUtf8(call.buf)
               /\ \A k \in 0..(Len(call.buf) - 1) : ~RegexMatchesValidUtf8(Prefix(call.buf, k))
        /\ (call.phase = "xread" \/ (call.phase = "returned" /\ call.result # "Ok")) =>
               \A k \in 0..Len(call.buf) : ~RegexMatchesValidUtf8(Prefix(call.buf, k))
        /\ (call.phase = "returned" /\ call.how = "eof") =>
               call.result = "ResponseValidation"

\* a call that matched at its second read, and none that read past a match
C13_Witness ==
    /\ call.phase = "returned"
    /\ call.proto = "TCP"
    /\ call.expect = "h"
    /\ call.result = "Ok"
    /\ call.buf = <<"x", "h">>

\* C14: without an expect pattern the read ends at EOF or when T has passed,
\* and the expiry of T is a success that returns the bytes read so far
C14_PlainTimeoutIsSuccess ==
    (call.phase # "none" /\ call.proto = "TCP" /\ call.expect = "none") =>
        /\ call.phase = "nread" => now <= call.timer
        /\ (call.phase = "returned" /\ call.how \in {"read_timeout", "eof"}) =>
               call.result = "Ok"
        /\ (call.phase = "returned" /\ call.how = "read_timeout") =>
               call.end = call.timer

\* the read timed out with one chunk read, and the call returned it
C14_Witness ==
    /\ call.phase = "returned"
    /\ call.proto = "TCP"
    /\ call.expect = "none"
    /\ call.how = "read_timeout"
    /\ call.result = "Ok"
    /\ Len(call.buf) = 1

\* C15: an HTTP run whose URL cannot be parsed or has no host spawns no
\* worker, issues no attempt and builds no report: it returns Err(Config)
C15_InvalidUrlFailsRun ==
    (cfg.protocol = "HTTP" /\ cfg.input \in {"unparsable_url", "no_host"}) =>
        /\ sup \in {"start", "failed"}
        /\ \A w \in Workers : pc[w] = "unspawned"
        /\ report = NoReport

\* C16: a TCP or UDS run whose expect pattern is no regular expression
\* fails at startup: no worker, no attempt, no report
C16_InvalidRegexFailsRun ==
    (cfg.protocol \in {"TCP", "UDS"} /\ cfg.input = "bad_regex") =>
        /\ sup \in {"start", "failed"}
        /\ \A w \in Workers : pc[w] \notin {"attempt", "send", "sendwait"}
        /\ report = NoReport

\* index min(floor(n * X), n - 1), counted from 0
FloorIndex(n, pct) == IF (n * pct) \div 100 < n - 1 THEN (n * pct) \div 100 ELSE n - 1

\* v is the element at 0-based index i of the samples in ascending order:
\* at most i samples are smaller and more than i are no larger
IsAtSortedIndex(samples, i, v) ==
    /\ \E j \in 1..Len(samples) : samples[j] = v
    /\ Cardinality({j \in 1..Len(samples) : samples[j] < v}) <= i
    /\ Cardinality({j \in 1..Len(samples) : samples[j] <= v}) > i

\* C17: for a non-empty sample set of size n each pX is the sample at index
\* min(floor(n * X), n - 1) of the ascending order; for the samples 1..10
\* p50 = 6 and p90 = p95 = p99 = 10
C17_FloorIndexPercentile ==
    (st.phase = "reduced" /\ st.samples # <<>>) =>
        /\ \A pct \in Percents :
               IsAtSortedIndex(st.samples, FloorIndex(Len(st.samples), pct), st.out.p[pct])
        /\ st.samples = ExampleSamples =>
               st.out.p = [pct \in Percents |-> IF pct = 50 THEN 6 ELSE 10]

\* the statistics of the samples 1..10
C17_Witness ==
    /\ st.phase = "reduced"
    /\ st.samples = ExampleSamples
    /\ st.out.p[50] = 6

\* C18: with at least one sample,
\* min <= p50 <= p90 <= p95 <= p99 <= max and min <= avg <= max
C18_StatisticsOrdered ==
    (st.phase = "reduced" /\ st.samples # <<>>) =>
        /\ st.out.min <= st.out.p[50]
        /\ st.out.p[50] <= st.out.p[90]
        /\ st.out.p[90] <= st.out.p[95]
        /\ st.out.p[95] <= st.out.p[99]
        /\ st.out.p[99] <= st.out.max
        /\ st.out.min <= st.out.avg
        /\ st.out.avg <= st.out.max

\* statistics that are not all equal, from samples that arrived out of order
C18_Witness ==
    /\ st.phase = "reduced"
    /\ Len(st.samples) = MaxSamples
    /\ st.samples[1] > st.samples[2]
    /\ st.out.min < st.out.avg
    /\ st.out.p[50] < st.out.max

\* every latency field of the report is zero
LatencyFieldsZero ==
    /\ report.avg_response_time = 0
    /\ report.min_response_time = 0
    /\ report.max_response_time = 0
    /\ report.p50_response_time = 0
    /\ report.p90_response_time = 0
    /\ report.p95_response_time = 0
    /\ report.p99_response_time = 0

\* C19 as stated: a report built from no samples has every latency field zero
\* and its requests_per_second is 0 exactly when its total_time is 0
C19_EmptyReportRpsZeroIffNoTime ==
    (Reported /\ report.samples = <<>>) =>
        /\ LatencyFieldsZero
        /\ report.requests_per_second.num = 0 <=> report.total_time = 0

\* C19 amended: a report built from no samples has every latency field zero
\* and its requests_per_second is 0 exactly when its total_time is 0 or its
\* total_requests is 0
C19_EmptyReportRpsZeroIffNoTimeOrNoRequests ==
    (Reported /\ report.samples = <<>>) =>
        /\ LatencyFieldsZero
        /\ report.requests_per_second.num = 0 <=>
               (report.total_time = 0 \/ report.total_requests = 0)

\* a report without samples whose rate is not zero: every attempt failed
C19_Witness ==
    /\ Reported
    /\ report.samples = <<>>
    /\ report.total_requests > 0
    /\ report.total_time > report.total_requests
    /\ report.requests_per_second.num > 0

\* C20: in a report with successful > 0, total_time is at least the largest
\* latency sample of the report
C20_TotalTimeCoversSamples ==
    (Reported /\ report.successful_requests > 0) =>
        /\ \A i \in 1..Len(response_times) : response_times[i] <= report.max_response_time
        /\ report.max_response_time <= report.total_time

\* a report whose largest sample is not zero
C20_Witness ==
    /\ Reported
    /\ report.successful_requests > 0
    /\ report.max_response_time > 0

\* a and b hold the same samples, each as often, in some order
SameMultiset(a, b) ==
    /\ Len(a) = Len(b)
    /\ \A k \in 1..Len(a) :
          Cardinality({i \in 1..Len(a) : a[i] = a[k]}) =
          Cardinality({i \in 1..Len(b) : b[i] = a[k]})

\* C21: the latency statistics are those of every other arrival order of the
\* same samples: avg, min, max and the percentiles depend on the multiset only
C21_OrderIndependent ==
    st.phase = "reduced" =>
        \A q \in SampleVectors :
            SameMultiset(q, st.samples) => st.out = LatencyOf(Sort(q))

\* statistics of samples that arrived in descending order
C21_Witness ==
    /\ st.phase = "reduced"
    /\ Len(st.samples) = MaxSamples
    /\ st.samples[1] > st.samples[2]
    /\ st.samples[2] > st.samples[3]
    /\ st.out.min = st.samples[3]

\* C22: in an HTTP run every successful attempt has added the length of the
\* configured request body plus the header name and value lengths to
\* bytes_sent, failed attempts nothing, whatever the responses were
C22_HttpBytesSentFromRequest ==
    cfg.protocol = "HTTP" =>
        bytes_sent = successful_requests * (BodyLen + HeaderBytes)

C26_ConfigInvariants ==
    conf.phase = "built" =>
        /\ conf.config.v.concurrency >= 1
        /\ conf.config.v.timeout > 0

\* q is ceil(n / c): the least q with q * c >= n
IsCeilDiv(q, n, c) == q * c >= n /\ (q - 1) * c < n

\* C27: for every C >= 1 and every N from 1 to the largest word the quota is
\* ceil(N / C), computed without overflow or panic; for N = 0 it is unbounded
C27_QuotaIsCeilNoOverflow ==
    conf.phase = "quota" =>
        /\ ~conf.quota.panicked
        /\ IF conf.requests > 0
           THEN IsCeilDiv(conf.quota.value, conf.requests, conf.concurrency)
           ELSE conf.quota.value = WordMax

\* the configuration was built by its constructor and its payload is text
BuiltWithUtf8Payload ==
    /\ conf.source \in {"cli", "tui"}
    /\ conf.config.v.payload.some => IsUtf8(conf.config.v.payload.v)

\* C28 as stated: a constructor-built configuration with UTF-8 payload is
\* equal, field by field, to what loading its saved form gives
C28_RoundTrip ==
    (conf.phase = "loaded" /\ BuiltWithUtf8Payload) => conf.loaded.v = conf.config.v

\* C28: a constructor-built configuration with UTF-8 payload and, for UDS, a
\* socket path that is valid UTF-8 is equal in target, method, ordered header
\* pairs, payload, expect, C, N, D, T and keep_alive to what loading its saved
\* form gives
C28_RoundTripUtf8Path ==
    (conf.phase = "loaded" /\ BuiltWithUtf8Payload /\ IsUtf8(conf.config.v.target))
        => conf.loaded.v = conf.config.v

C28_Witness ==
    /\ conf.phase = "loaded"
    /\ BuiltWithUtf8Payload
    /\ conf.config.v.kind = "HTTP"
    /\ conf.config.v.headers = <<[name |-> <<"a">>, value |-> <<"a">>],
                                 [name |-> <<>>, value |-> <<":">>]>>
    /\ conf.config.v.payload = Some(<<"a">>)
    /\ conf.saved.v.headers = Some(<<<<"a", ":", "a">>, <<":", ":">>>>)
    /\ conf.loaded.v = conf.config.v

\* C29: a TCP call that fails in its connect returns ConnectionRefused, or
\* ConnectionTimeout when the connect did not finish within T; one that fails in
\* its write returns RequestTimeout when the write did not finish within T and
\* Io otherwise; a read error returns Io; each of these kinds comes from that
\* phase only; and write_all is called only for data that is present and not
\* empty
C29_TcpErrorKinds ==
    (call.phase = "returned" /\ call.proto = "TCP") =>
        /\ call.last = "connect" /\ call.how = "connect" => call.result = "ConnectionRefused"
        /\ call.last = "connect" /\ call.how = "timeout" =>
               call.result = "ConnectionTimeout" /\ call.end = call.start + Timeout
        /\ call.last = "write" /\ call.how = "timeout" => call.result = "RequestTimeout"
        /\ call.last = "write" /\ call.how = "write" => call.result = "Io"
        /\ call.how = "read" => call.result = "Io" /\ call.last \in {"xread", "nread"}
        /\ call.result \in {"ConnectionRefused", "ConnectionTimeout"} =>
               call.last = "connect" /\ ~call.wrote
        /\ call.result = "RequestTimeout" => call.last = "write"
        /\ call.result = "Io" => call.last \in {"write", "xread", "nread"}
        /\ call.data \in {"absent", "empty"} => ~call.wrote /\ call.last # "write"
        /\ call.last = "write" => call.wrote

C29_Witness ==
    /\ call.phase = "returned"
    /\ call.proto = "TCP"
    /\ call.data = "empty"
    /\ ~call.wrote
    /\ call.last = "nread"
    /\ call.result = "Io"

\* every worker has left its loop with its whole quota behind it
AllExhausted ==
    /\ cfg.requests > 0
    /\ \A w \in Workers : pc[w] = "done" /\ iter[w] = requests_per_worker

SamplesInOrder == response_times \o chan

\* C31: a report exists only when the supervisor's handle and every worker's
\* handle are dropped and the channel is empty; the samples taken out and
\* those still in the channel are as many as the sends that went through;
\* every step leaves them as they are or appends the sample one worker sends;
\* and the reducer is given the sorted vector of them
C31_DrainAfterAllHandlesDropped ==
    /\ [](Reported =>
            /\ sup # "start"
            /\ \A w \in Workers : Terminated(w)
            /\ chan = <<>>
            /\ report.samples = Sort(response_times))
    /\ [](Len(SamplesInOrder) =
              successful_requests - Cardinality({w \in Workers : credited[w]}))
    /\ [][\/ SamplesInOrder' = SamplesInOrder
           \/ \E w \in Workers : SamplesInOrder' = Append(SamplesInOrder, elapsed[w])]_vars

C31_Witness ==
    /\ Reported
    /\ Len(report.samples) = 2
    /\ report.successful_requests = 2
    /\ \E w \in Workers : pc[w] = "cancelled"

\* C32: the channel never holds more than its capacity; a sample leaves it
\* (and enters response_times) only in the drain, after the wait loop was left
\* and abort_all was called; and a worker suspended in its send stays suspended
\* until it is cancelled
C32_NoReceiveBeforeDrain ==
    /\ [](Len(chan) <= ChanCap)
    /\ [][(Len(chan') < Len(chan) \/ response_times' # response_times)
            => (sup = "drain" /\ aborted /\ loopExit <= now)]_vars
    /\ [][\A w \in Workers :
            pc[w] = "sendwait" => pc'[w] \in {"sendwait", "cancelled"}]_vars

C32_Witness ==
    /\ Reported
    /\ Len(report.samples) = ChanCap
    /\ \E w \in Workers : pc[w] = "cancelled" /\ credited[w]
    /\ report.successful_requests = ChanCap + 1

\* C33: in a TCP or UDS run bytes_sent is successful times the length of the
\* configured data (0 without data) and the report carries both counters; an
\* attempt that returns Ok adds that length and the length of its response;
\* no other step (a failed attempt, a cancellation) changes either counter
C33_StreamByteCounters ==
    /\ [](cfg.protocol \in {"TCP", "UDS"} =>
            /\ bytes_sent = successful_requests * ConfiguredData(cfg.protocol).len
            /\ Reported => /\ report.bytes_sent = bytes_sent
                           /\ report.bytes_received = bytes_received
                           /\ report.bytes_sent =
                                report.successful_requests * ConfiguredData(cfg.protocol).len)
    /\ [][cfg.protocol \in {"TCP", "UDS"} =>
            IF \E w \in Workers : pc[w] = "attempt" /\ pc'[w] = "send"
            THEN /\ successful_requests' = successful_requests + 1
                 /\ bytes_received' - bytes_received \in RespLens
                 /\ bytes_sent' - bytes_sent = ConfiguredData(cfg.protocol).len
            ELSE /\ successful_requests' = successful_requests
                 /\ bytes_received' = bytes_received
                 /\ bytes_sent' = bytes_sent]_vars

C33_Witness ==
    /\ Reported
    /\ cfg.protocol = "UDS"
    /\ report.total_requests = 2
    /\ report.successful_requests = 1
    /\ report.bytes_sent = 0
    /\ report.bytes_received = 2

\* C34: an HTTP call whose transaction completed (head and body received) is
\* Ok whatever the status, and the worker counts it as successful and hands
\* its latency to the channel; a call that ended any other way is a
\* connection, timeout, parse, protocol or configuration error, and the worker
\* counts no success and hands over no sample
C34_AnyStatusIsSuccess ==
    (call.phase = "handled" /\ call.proto = "HTTP") =>
        IF call.how = "body"
        THEN /\ call.status \in Statuses
             /\ call.result = "Ok"
             /\ call.successful = 1
             /\ call.sample = [sent |-> TRUE, v |-> call.end - call.start]
        ELSE /\ call.result \in {"ConnectionRefused", "ConnectionTimeout",
                                  "RequestTimeout", "Parse", "Http", "Config"}
             /\ call.successful = 0
             /\ call.sample = NoSample

C34_Witness ==
    /\ call.phase = "handled"
    /\ call.proto = "HTTP"
    /\ call.status = 500
    /\ call.result = "Ok"
    /\ call.successful = 1
    /\ call.sample.sent


\* the names in config_names
ShownNames(t) == {t.names[i] : i \in 1..Len(t.names)}

\* C35: on the Configs page with the Save action selected, Enter in insert mode
\* on a non-empty name leaves the current benchmark settings in the store under
\* that name and the name in config_names.
C35_SaveConfirmStoresSettings ==
    [][(/\ tui.phase = "app"
        /\ tui.mode = "Insert"
        /\ tui.page = "Configs"
        /\ tui.action = "Save"
        /\ tui.text # <<>>
        /\ KeyEnterInsert)
       => (/\ tui.text \in DOMAIN tui'.store
           /\ tui.text \in ShownNames(tui'))]_vars

\* C39: config_names lists exactly the keys of the store, each once, after
\* any saves and deletes, whether or not their write to disk succeeded.
C39_NamesAreStoreKeys ==
    tui.phase = "app" =>
        /\ ShownNames(tui) = DOMAIN tui.store
        /\ Len(tui.names) = Cardinality(DOMAIN tui.store)


\* C36: at most one benchmark task is in flight; 'r' while is_running starts
\* nothing; is_running is true while the spawned task is in flight, and false
\* again once the task has ended, whichever way it ended.
C36_OneTaskAndFlagFollowsIt ==
    /\ [](tui.phase = "app" =>
            /\ tui.tasks <= 1
            /\ tui.is_running <=> tui.tasks > 0)
    /\ [][(tui.phase = "app" /\ tui.is_running /\ KeyRun)
           => tui'.tasks = tui.tasks]_vars

\* C37: the page and options the task copies under its first lock are those
\* of the moment 'r' was pressed.
C37_RunsWhatWasPressed ==
    [][(/\ tui.phase = "app"
        /\ tui.task.phase = "spawned"
        /\ tui'.task.phase = "copied")
       => tui'.task.snap = tui.task.pressed]_vars

\* C38: the focused field is None or a field of the page shown.
C38_FocusIsOnPage ==
    tui.phase = "app" =>
        \/ tui.focus = "None"
        \/ \E i \in 1..Len(FieldSeq(tui.page)) : FieldSeq(tui.page)[i] = tui.focus

====
